---- MODULE Spec2Model ----
(***************************************************************************)
(* RemoteSession (extension/remote-session), latest revision held in       *)
(* src/unnamed/part_001 lines 343-907: the client that owns one socket.io  *)
(* socket to a runner server, the session data, the runner status data and *)
(* the list of remote terminals.                                           *)
(*                                                                         *)
(* Every handler of the class is one action.  A handler is a sequence of   *)
(* assignments and calls, so it is written as a composition of operators   *)
(* over a record `s' that holds the fields of the object; the action       *)
(* commits the fields of the final record.  The record also carries `fx',  *)
(* the list of outward effects of the handler, in order (socket emits,     *)
(* _onUpdate notifications, store writes, collaborator calls); they are    *)
(* effects, not state, and are not kept.  The texts of the notifications   *)
(* are shortened to their first words.                                     *)
(*                                                                         *)
(* Time is counted in ticks of 1/TicksPerSecond second, so that the        *)
(* whole-second truncation of dayjs().diff(..., 'second') is visible.  The *)
(* clock is read only to stamp a terminal and to compare the stamp with    *)
(* the time of a later event, so a TerminalInstance keeps, in place of     *)
(* activateTime, the ticks elapsed since: `elapsed' = dayjs() -            *)
(* activateTime.  The other fields kept are id and restoredFromRemote;     *)
(* file, cols and rows are passed through unchanged by every handler and   *)
(* are left out.                                                           *)
(***************************************************************************)
EXTENDS Integers, Sequences, FiniteSets, TLC

\* ---------------------------------------------------------------- bounds
\* A run is bounded in one of three ways, chosen when it starts.
\* Runs of two connectTo calls, with a small registry:
MaxConnects == 2      \* sockets created by connectTo in one run
MaxOnce == 1          \* once-listeners of SessionStarted pending on one socket
MaxTerminals == 1     \* instances in the registry
MaxElapsed == 0       \* ticks of time that pass after a terminal was activated
MaxLaunches == 1      \* launchRunnerClient calls suspended in setupRunnerClientRepo
MaxPrompts == 1       \* modal prompts outstanding at a time
MaxDisposals == 0     \* times the user closes or hides the terminal panel
\* Runs of one connectTo call whose socket re-connects, with a registry of two:
TMaxConnects == 1
TMaxOnce == 2
TMaxTerminals == 2
TMaxElapsed == 1
TMaxLaunches == 1
TMaxPrompts == 1
TMaxDisposals == 0
\* Runs of one connectTo call, with four seconds of time for a terminal:
CMaxConnects == 1
CMaxOnce == 1
CMaxTerminals == 1
CMaxElapsed == 8
CMaxLaunches == 1
CMaxPrompts == 1
CMaxDisposals == 1
MaxTermId == 2        \* terminal ids are 1..MaxTermId

\* ------------------------------------------------------ program constants
terminalLiveThreshold == 3
TicksPerSecond == 2

\* ------------------------------------------------------------ value sets
Undef == ""                          \* undefined / empty string (both falsy)
Refs == {"r1", "r2"}
SessionIds == {"a", "b"}
TermIds == 1..MaxTermId

Initial == "Initial"
Connecting == "Connecting"
Connected == "Connected"
SessionStarted == "SessionStarted"
Disconnected == "Disconnected"
RunnerStatus == {Initial, Connecting, Connected, SessionStarted, Disconnected}

Timeout == "Timeout"
SessionTerminated == "SessionTerminated"
SessionIdDoesNotMatch == "SessionIdDoesNotMatch"
RunnerError == {Timeout, SessionTerminated, SessionIdDoesNotMatch}

Offline == "Offline"
Online == "Online"

\* SessionData values handed to connectTo.  "gha" is the address of a runner
\* of type GitHubActions in allRunners, "custom" is any other address.
MkData(ref, sid, os, addr) ==
  [githubRef |-> ref, sessionId |-> sid, os |-> os, serverAddress |-> addr]
SessionDatas ==
  {MkData("r1", Undef, "linux", "gha"), MkData("r1", "a", "linux", "gha"),
   MkData("r2", Undef, "linux", "custom")}
NoData == MkData(Undef, Undef, Undef, Undef)     \* _data === undefined
NoRecord == "none"                               \* no persisted record for a ref

VARIABLES
  data,                     \* _data
  statusData,               \* _runnerStatusData
  terminals,                \* _terminals
  socket,                   \* this.socket: 0 is undefined, else an index of sockets
  sockets,                  \* every socket made by io(), with the closure of its connectTo
  store,                    \* getSessionData / setSessionData: ref -> sessionId of the record
  panel,                    \* _panel: "none", "open" (visible) or "hidden" (not visible)
  workflowDispatchTimeout,  \* _workflowDispatchTimeout: "unset", "armed", "cleared"
  launches,                 \* launchRunnerClient calls awaiting setupRunnerClientRepo
  prompts,                  \* modal prompts awaiting an answer: connectTo's and terminate's
  issued,                   \* session ids the server has sent in session-started
  launched,                 \* per session id, how often launchRunnerClient got past its checks
  disposals,                \* how often the user has closed or hidden the terminal panel
  lim                       \* the bounds of the run

vars == <<data, statusData, terminals, socket, sockets, store, panel,
          workflowDispatchTimeout, launches, prompts, issued, launched,
          disposals, lim>>

\* ------------------------------------------------------------ effects
NoStatus ==
  [sessionId |-> Undef, runnerStatus |-> Undef, runnerError |-> Undef,
   runnerClientStatus |-> Undef, runnerClientOS |-> Undef]
\* One outward effect: t is its kind ("emit", "onUpdate", "store", "call",
\* "disconnect"), ev the event / severity / callee, sock the socket it goes to,
\* arg a string argument, id a terminal id, st the status data a notification
\* carries.
Fx(t, ev, sock, arg, id, st) ==
  [t |-> t, ev |-> ev, sock |-> sock, arg |-> arg, id |-> id, st |-> st]
Emit(s, k, ev, arg, id) ==
  [s EXCEPT !.fx = Append(@, Fx("emit", ev, k, arg, id, NoStatus))]
\* this.socket?.emit(ev, ...)
EmitOnSocket(s, ev, arg, id) ==
  IF s.socket = 0 THEN s ELSE Emit(s, s.socket, ev, arg, id)
Call(s, name, arg) ==
  [s EXCEPT !.fx = Append(@, Fx("call", name, 0, arg, 0, NoStatus))]
\* _onUpdate({...runnerStatusData, type, message})
OnUpdate(s, type, message) ==
  [s EXCEPT !.fx = Append(@, Fx("onUpdate", type, 0, message, 0, s.statusData))]

\* ------------------------------------------------------------ accessors
\* get sessionId(): this._data?.sessionId
sessionId(s) == s.data.sessionId

\* set sessionId(sessionId)
SetSessionId(s, sid) ==
  IF sid = Undef THEN [s EXCEPT !.data = NoData]
  ELSE IF s.data # NoData THEN [s EXCEPT !.data.sessionId = sid]
  ELSE s

\* deliverStatusData(): the notifications for the current status data.  The
\* text of the Connected message quotes this.sessionId (of _data).
deliverStatusData(s) ==
  LET d == s.statusData
      s1 == IF d.runnerStatus = Connected
            THEN OnUpdate(s, "message",
                          IF sessionId(s) # Undef
                          THEN "Runner conncted. Resuming session " \o sessionId(s)
                          ELSE "Runner conncted. Reuqesting new session")
            ELSE s
      s2 == IF d.runnerStatus = Connecting THEN OnUpdate(s1, "message", Undef) ELSE s1
      s3 == IF d.runnerStatus = Initial THEN OnUpdate(s2, "message", Undef) ELSE s2
      s4 == IF d.runnerStatus = Initial /\ d.runnerError # Undef
            THEN OnUpdate(s3, "error", "runnerErrorMesage." \o d.runnerError) ELSE s3
      s5 == IF d.runnerStatus = Initial /\ d.runnerError = Timeout
            THEN OnUpdate(s4, "error", "Connection timeout") ELSE s4
      s6 == IF d.runnerStatus = Initial /\ d.runnerError = SessionTerminated
            THEN OnUpdate(s5, "error", "The session is not available") ELSE s5
      s7 == IF d.runnerStatus = Initial /\ d.runnerError = SessionIdDoesNotMatch
            THEN OnUpdate(s6, "error", "The registered session ID doesn't match") ELSE s6
      s8 == IF d.runnerStatus = Disconnected
            THEN OnUpdate(s7, "error", "Runner server disconnected") ELSE s7
  IN IF d.runnerStatus = SessionStarted
     THEN OnUpdate(s8, "message",
                   IF d.runnerClientStatus = Offline
                   THEN "Session started. Waiting for runner client response"
                   ELSE "Runner client connected")
     ELSE s8

\* setPartialRunnerStatusData(partial): partial is a record of some of the fields
setPartialRunnerStatusData(s, partial) ==
  deliverStatusData(
    [s EXCEPT !.statusData =
       [f \in DOMAIN s.statusData |->
          IF f \in DOMAIN partial THEN partial[f] ELSE s.statusData[f]]])

\* resetRunnerStatus(runnerStatus = Initial, runnerError?)
resetRunnerStatus(s, runnerStatus, runnerError) ==
  setPartialRunnerStatusData(s,
    [sessionId |-> Undef, runnerStatus |-> runnerStatus, runnerError |-> runnerError,
     runnerClientStatus |-> Offline, runnerClientOS |-> Undef])

\* revealPanel(): an existing panel is revealed if it is not visible, else a
\* panel is created
revealPanel(s) ==
  IF s.panel = "hidden" THEN Call([s EXCEPT !.panel = "open"], "panel.reveal", Undef)
  ELSE IF s.panel # "none" THEN s
  ELSE Call([s EXCEPT !.panel = "open"], "createWebviewPanel", Undef)

\* setupPanelIfNeeded(); disposing the panel runs onDidDispose, which clears _panel
setupPanelIfNeeded(s) ==
  IF Len(s.terminals) = 0
  THEN IF s.panel # "none"
       THEN Call([s EXCEPT !.panel = "none"], "panel.dispose", Undef)
       ELSE s
  ELSE revealPanel(s)

\* postTerminalsToWebview(): this._panel?.webview.postMessage(SetTerminals)
postTerminalsToWebview(s) ==
  IF s.panel # "none" THEN Call(s, "postMessage.SetTerminals", Undef) ELSE s

\* set terminals(terminals)
SetTerminals(s, ts) ==
  postTerminalsToWebview(setupPanelIfNeeded([s EXCEPT !.terminals = ts]))

\* setSessionData(context, ref, value): value is the sessionId of the record
\* written, or NoRecord for undefined
setSessionData(s, ref, value) ==
  [s EXCEPT !.store[ref] = value,
            !.fx = Append(@, Fx("store", ref, 0, value, 0, NoStatus))]

\* clearWorkflowDispatchTimeoutIfNeeded()
clearWorkflowDispatchTimeoutIfNeeded(s) ==
  IF s.workflowDispatchTimeout = "armed"
  THEN [s EXCEPT !.workflowDispatchTimeout = "cleared"]
  ELSE s

\* a 'disconnect' listener that also clears the session id held in _data
OnDisconnectForgetting(s) ==
  SetSessionId(resetRunnerStatus(s, Disconnected, Undef), Undef)

\* socket.on('disconnect', ...) of connectTo
OnDisconnect(s) == resetRunnerStatus(s, Disconnected, Undef)

\* socket.disconnect() of socket.io-client: a connected socket is closed and its
\* 'disconnect' listeners run synchronously; a socket that is not connected is
\* closed silently.  A closed socket never connects again and delivers no
\* event, so what its listeners would have used is forgotten with it.
SocketDisconnect(s, k) ==
  IF k = 0 THEN s
  ELSE LET wasConnected == s.sockets[k].state = "connected"
           s1 == [s EXCEPT !.sockets[k].state = "closed",
                           !.sockets[k].once = 0,
                           !.sockets[k].announced = Undef,
                           !.fx = Append(@, Fx("disconnect", Undef, k, Undef, 0, NoStatus))]
       IN IF wasConnected THEN OnDisconnect(s1) ELSE s1

\* retrieveRunnerInfo()
retrieveRunnerInfo(s) == EmitOnSocket(s, "CheckRunnerStatus", Undef, 0)

\* launchRunnerClient() up to its await of setupRunnerClientRepo
launchRunnerClient(s) ==
  LET s0 == Call(s, "launchRunnerClient", sessionId(s))
      postNoDataMessage(x) ==
        [x EXCEPT !.fx = Append(@, Fx("onUpdate", "error", 0,
                                      "No sufficient data to launch runner client", 0,
                                      x.statusData))]
  IN IF s0.data.serverAddress # "gha" THEN s0
     ELSE IF s0.data = NoData THEN postNoDataMessage(s0)
     ELSE IF \/ s0.data.githubRef = Undef \/ s0.data.os = Undef
             \/ s0.data.serverAddress = Undef \/ s0.data.sessionId = Undef
          THEN postNoDataMessage(s0)
     ELSE LET s1 == clearWorkflowDispatchTimeoutIfNeeded(s0)
          IN [s1 EXCEPT !.launches = Append(@, s1.data),
                        !.launched[s1.data.sessionId] = @ + 1,
                        !.fx = Append(@, Fx("call", "setupRunnerClientRepo", 0, Undef, 0,
                                            NoStatus))]

\* disconnectRunner without `this._data = undefined'
disconnectRunnerKeepingData(s, error) ==
  LET s1 == clearWorkflowDispatchTimeoutIfNeeded(s)
      s2 == SocketDisconnect(s1, s1.socket)
      s4 == SetTerminals(s2, <<>>)
      s5 == [s4 EXCEPT !.socket = 0]
      s6 == resetRunnerStatus(s5, Initial, error)
  IN Call(s6, "onDisconnected", Undef)

\* disconnectRunner(error?); offAny() removes no listener added with on()
disconnectRunner(s, error) ==
  LET s1 == clearWorkflowDispatchTimeoutIfNeeded(s)
      s2 == SocketDisconnect(s1, s1.socket)
      s3 == [s2 EXCEPT !.data = NoData]
      s4 == SetTerminals(s3, <<>>)
      s5 == [s4 EXCEPT !.socket = 0]
      s6 == resetRunnerStatus(s5, Initial, error)
  IN Call(s6, "onDisconnected", Undef)

\* ------------------------------------------------------------ terminals
Range(f) == {f[i] : i \in DOMAIN f}
Ids(ts) == {ts[i].id : i \in DOMAIN ts}
RECURSIVE Filter(_, _)
\* this.terminals.filter(({ id }) => id !== terminalId)
Filter(ts, terminalId) ==
  IF ts = <<>> THEN <<>>
  ELSE IF Head(ts).id # terminalId
       THEN <<Head(ts)>> \o Filter(Tail(ts), terminalId)
       ELSE Filter(Tail(ts), terminalId)

\* activateTime.diff(dayjs(), 'second') of dayjs for a terminal activated
\* `elapsed' ticks ago: minus the elapsed time, in whole seconds, truncated
\* towards zero
DiffSeconds(elapsed) == -(elapsed \div TicksPerSecond)

\* the test of the TerminalClosed listener: find(...)?.activateTime.diff(dayjs(),
\* 'second') ?? 0) >= -terminalLiveThreshold; find returns the first match
ClosedTooSoon(ts, terminalId) ==
  LET hits == {i \in DOMAIN ts : ts[i].id = terminalId}
      first == CHOOSE i \in hits : \A j \in hits : i <= j
  IN (IF hits = {} THEN 0 ELSE DiffSeconds(ts[first].elapsed))
       >= -terminalLiveThreshold

\* activateTerminal with the test of ignoreIfExists left out
activateTerminalAlways(s, ignoreIfExists, newId) ==
  IF s.statusData.runnerClientStatus = Offline THEN [s |-> s, ret |-> FALSE]
  ELSE LET options == [id |-> newId, elapsed |-> 0, restoredFromRemote |-> FALSE]
           s1 == SetTerminals(s, Append(s.terminals, options))
           s2 == EmitOnSocket(s1, "ActivateTerminal", Undef, newId)
           s3 == IF s2.data # NoData
                 THEN setSessionData(s2, s2.data.githubRef, s2.data.sessionId)
                 ELSE s2
       IN [s |-> s3, ret |-> TRUE]

\* activateTerminal with its first two tests in the other order
activateTerminalExistsFirst(s, ignoreIfExists, newId) ==
  IF ignoreIfExists /\ Len(s.terminals) # 0 THEN [s |-> s, ret |-> TRUE]
  ELSE IF s.statusData.runnerClientStatus = Offline THEN [s |-> s, ret |-> FALSE]
  ELSE LET options == [id |-> newId, elapsed |-> 0, restoredFromRemote |-> FALSE]
           s1 == SetTerminals(s, Append(s.terminals, options))
           s2 == EmitOnSocket(s1, "ActivateTerminal", Undef, newId)
           s3 == IF s2.data # NoData
                 THEN setSessionData(s2, s2.data.githubRef, s2.data.sessionId)
                 ELSE s2
       IN [s |-> s3, ret |-> TRUE]

\* activateTerminal(file, ignoreIfExists); newId is the value of nanoid().
\* The result is the object and the value returned.
activateTerminal(s, ignoreIfExists, newId) ==
  IF s.statusData.runnerClientStatus = Offline THEN [s |-> s, ret |-> FALSE]
  ELSE IF ignoreIfExists /\ Len(s.terminals) # 0 THEN [s |-> s, ret |-> TRUE]
  ELSE LET options == [id |-> newId, elapsed |-> 0, restoredFromRemote |-> FALSE]
           s1 == SetTerminals(s, Append(s.terminals, options))
           s2 == EmitOnSocket(s1, "ActivateTerminal", Undef, newId)
           s3 == IF s2.data # NoData
                 THEN setSessionData(s2, s2.data.githubRef, s2.data.sessionId)
                 ELSE s2
       IN [s |-> s3, ret |-> TRUE]

\* ------------------------------------------------------------ connectTo
\* the callback of setTimeout in connectTo, for the socket k of that call
TimeoutCallback(s, k) ==
  LET s0 == [s EXCEPT !.sockets[k].timer = "fired"]
  IN IF s0.statusData.runnerStatus \in {Initial, Connected, Connecting}
     THEN LET s1 == SocketDisconnect(s0, k)
              s2 == resetRunnerStatus(s1, Initial, Timeout)
          IN [s2 EXCEPT !.sockets[k].promise = IF @ = "pending" THEN "false" ELSE @]
     ELSE s0

\* connectTo without `this.terminals = []'
ProceedKeepingTerminals(s, d, k) ==
  LET s1 == SocketDisconnect(s, s.socket)
      s2 == [s1 EXCEPT !.data = d,
                       !.sockets[k] = [state |-> "opening", timer |-> "armed",
                                       promise |-> "pending", once |-> 0, ref |-> d.githubRef,
                                       announced |-> Undef]]
      s3 == setPartialRunnerStatusData(s2,
              [sessionId |-> d.sessionId, runnerStatus |-> Connecting,
               runnerError |-> Undef, runnerClientStatus |-> Offline])
  IN [s3 EXCEPT !.socket = k]

\* connectTo without `this.socket?.disconnect()'
ProceedKeepingSocket(s, d, k) ==
  LET s2 == [s EXCEPT !.data = d,
                      !.sockets[k] = [state |-> "opening", timer |-> "armed",
                                      promise |-> "pending", once |-> 0, ref |-> d.githubRef,
                                      announced |-> Undef]]
      s3 == setPartialRunnerStatusData(s2,
              [sessionId |-> d.sessionId, runnerStatus |-> Connecting,
               runnerError |-> Undef, runnerClientStatus |-> Offline])
      s4 == [s3 EXCEPT !.socket = k]
  IN SetTerminals(s4, <<>>)

\* connectTo from `this.socket?.disconnect()' on: k is the socket io() returns
Proceed(s, d, k) ==
  LET s1 == SocketDisconnect(s, s.socket)
      s2 == [s1 EXCEPT !.data = d,
                       !.sockets[k] = [state |-> "opening", timer |-> "armed",
                                       promise |-> "pending", once |-> 0, ref |-> d.githubRef,
                                       announced |-> Undef]]
      s3 == setPartialRunnerStatusData(s2,
              [sessionId |-> d.sessionId, runnerStatus |-> Connecting,
               runnerError |-> Undef, runnerClientStatus |-> Offline])
      s4 == [s3 EXCEPT !.socket = k]
  IN SetTerminals(s4, <<>>)

\* socket.on('connect', ...)
OnConnect(s, k) ==
  LET s1 == [s EXCEPT !.sockets[k].timer = IF @ = "armed" THEN "cleared" ELSE @]
      s2 == Emit(s1, k, "SetType", sessionId(s1), 0)
      s3 == setPartialRunnerStatusData(
              [s2 EXCEPT !.sockets[k].announced = sessionId(s1)],
              [runnerStatus |-> Connected])
  IN [s3 EXCEPT !.sockets[k].once = @ + 1,
                !.sockets[k].promise = IF @ = "pending" THEN "true" ELSE @]

\* the listener with isNewSession computed after `this.sessionId = sessionId'
OnSessionStartedLate(s, k, sid) ==
  IF sessionId(s) # Undef /\ sessionId(s) # sid
  THEN disconnectRunner(s, SessionIdDoesNotMatch)
  ELSE LET s1 == setPartialRunnerStatusData(s,
                   [sessionId |-> sid, runnerStatus |-> SessionStarted])
           s2 == Call(s1, "onPortForwardingUpdate", Undef)
           s3 == setSessionData(s2, s.sockets[k].ref, sid)
           s4 == SetSessionId(s3, sid)
           isNewSession == sessionId(s4) = Undef
       IN IF isNewSession
          THEN launchRunnerClient(s4)
          ELSE retrieveRunnerInfo(s4)

\* the listener that launches the runner client for every session started
OnSessionStartedLaunching(s, k, sid) ==
  IF sessionId(s) # Undef /\ sessionId(s) # sid
  THEN disconnectRunner(s, SessionIdDoesNotMatch)
  ELSE LET s1 == setPartialRunnerStatusData(s,
                   [sessionId |-> sid, runnerStatus |-> SessionStarted])
           s2 == Call(s1, "onPortForwardingUpdate", Undef)
           s3 == setSessionData(s2, s.sockets[k].ref, sid)
           s4 == SetSessionId(s3, sid)
       IN launchRunnerClient(s4)

\* one listener added by socket.once(SessionStarted, ...); `data' of the closure
\* is s.sockets[k].ref
OnSessionStarted(s, k, sid) ==
  IF sessionId(s) # Undef /\ sessionId(s) # sid
  THEN disconnectRunner(s, SessionIdDoesNotMatch)
  ELSE LET s1 == setPartialRunnerStatusData(s,
                   [sessionId |-> sid, runnerStatus |-> SessionStarted])
           s2 == Call(s1, "onPortForwardingUpdate", Undef)
           s3 == setSessionData(s2, s.sockets[k].ref, sid)
           isNewSession == sessionId(s3) = Undef
           s4 == SetSessionId(s3, sid)
       IN IF isNewSession
          THEN launchRunnerClient(s4)
          ELSE retrieveRunnerInfo(s4)

RECURSIVE RunListeners(_, _, _, _)
\* emit of the event: every listener registered when the event arrives runs once
RunListeners(s, k, sid, n) ==
  IF n = 0 THEN s ELSE RunListeners(OnSessionStarted(s, k, sid), k, sid, n - 1)

\* ------------------------------------------------------------ the object
Cur ==
  [data |-> data, statusData |-> statusData, terminals |-> terminals,
   socket |-> socket, sockets |-> sockets, store |-> store, panel |-> panel,
   workflowDispatchTimeout |-> workflowDispatchTimeout, launches |-> launches,
   launched |-> launched, fx |-> <<>>]

Commit(s) ==
  /\ Len(s.launches) <= lim.launches
  /\ Len(s.terminals) <= lim.terminals
  /\ data' = s.data
  /\ statusData' = s.statusData
  /\ terminals' = s.terminals
  /\ socket' = s.socket
  /\ sockets' = s.sockets
  /\ store' = s.store
  /\ panel' = s.panel
  /\ workflowDispatchTimeout' = s.workflowDispatchTimeout
  /\ launches' = s.launches
  /\ launched' = s.launched
  /\ lim' = lim

UnusedSocket == [state |-> "unused", timer |-> "none", promise |-> "none", once |-> 0,
                 ref |-> Undef, announced |-> Undef]

\* the record of a workspace never used, and the records a workspace may hold
\* from an earlier run of the extension
FreshStore == [r \in Refs \cup {Undef} |-> NoRecord]
PersistedStores == {FreshStore, [FreshStore EXCEPT !["r1"] = "b"]}

Start(bounds, stores) ==
  /\ lim = bounds
  /\ data = NoData
  /\ statusData = [sessionId |-> Undef, runnerStatus |-> Initial, runnerError |-> Undef,
                   runnerClientStatus |-> Offline, runnerClientOS |-> Undef]
  /\ terminals = <<>>
  /\ socket = 0
  /\ sockets = [k \in 1..bounds.connects |-> UnusedSocket]
  /\ store \in stores
  /\ panel = "none"
  /\ workflowDispatchTimeout = "unset"
  /\ launches = <<>>
  /\ prompts = <<>>
  /\ issued = {}
  /\ launched = [i \in SessionIds |-> 0]
  /\ disposals = 0

InitConnections ==
  Start([connects |-> MaxConnects, once |-> MaxOnce, terminals |-> MaxTerminals,
         elapsed |-> MaxElapsed, launches |-> MaxLaunches, prompts |-> MaxPrompts,
         disposals |-> MaxDisposals],
        {FreshStore})

InitTerminals ==
  Start([connects |-> TMaxConnects, once |-> TMaxOnce, terminals |-> TMaxTerminals,
         elapsed |-> TMaxElapsed, launches |-> TMaxLaunches, prompts |-> TMaxPrompts,
         disposals |-> TMaxDisposals],
        PersistedStores)

InitClock ==
  Start([connects |-> CMaxConnects, once |-> CMaxOnce, terminals |-> CMaxTerminals,
         elapsed |-> CMaxElapsed, launches |-> CMaxLaunches, prompts |-> CMaxPrompts,
         disposals |-> CMaxDisposals],
        {FreshStore})

Init == InitConnections \/ InitTerminals \/ InitClock

Sockets == DOMAIN sockets
CanConnect == \E k \in Sockets : sockets[k].state = "unused"
\* io(): the next socket
NextSocket == CHOOSE k \in Sockets :
                /\ sockets[k].state = "unused"
                /\ \A j \in Sockets : sockets[j].state = "unused" => k <= j

\* the test of connectTo without its comparison with data.sessionId
ConflictWithAnyRecord(d) == store[d.githubRef] \notin {NoRecord, Undef}

\* the test of connectTo on the persisted record of data.githubRef
Conflict(d) ==
  /\ store[d.githubRef] \notin {NoRecord, Undef}
  /\ store[d.githubRef] # d.sessionId

RemoveAt(q, i) == SubSeq(q, 1, i - 1) \o SubSeq(q, i + 1, Len(q))

\* ------------------------------------------------------------ handlers
\* Each is the whole handler, from the object s it finds to the object it leaves.

\* the prompt of connectTo dismissed: runnerStatus = Initial, return false
DeclineConnect(s) == setPartialRunnerStatusData(s, [runnerStatus |-> Initial])

\* transport 'connect' of socket k (the first one, or a re-connect)
ConnectEvent(s, k) == OnConnect([s EXCEPT !.sockets[k].state = "connected"], k)

\* transport 'disconnect' of socket k, not asked for by the client; the socket
\* then tries to connect again
DisconnectEvent(s, k) == OnDisconnect([s EXCEPT !.sockets[k].state = "down"])

\* an 'error' listener that resets the status as the 'disconnect' listener does
ErrorEventResetting(s, k) == OnDisconnect(s)

\* socket.on('error', ...): logged
ErrorEvent(s, k) == s

\* RunnerServerEvent.SessionStarted(sid) on socket k: its once-listeners run
SessionStartedMessage(s, k, sid) ==
  RunListeners([s EXCEPT !.sockets[k].once = 0], k, sid, s.sockets[k].once)

\* socket.on(RunnerServerEvent.SessionTerminated, ...)
SessionTerminatedMessage(s) == disconnectRunner(s, SessionTerminated)

\* the CurrentTerminals listener calling activateTerminal() in place of
\* activateTerminalIfNeeded()
CurrentTerminalsMessageActivating(s, ids, newId) ==
  LET restored == [i \in DOMAIN ids |->
                     [id |-> ids[i], elapsed |-> 0, restoredFromRemote |-> TRUE]]
  IN activateTerminal(SetTerminals(s, restored), FALSE, newId).s

\* socket.on(RunnerClientEvent.CurrentTerminals, ...); ids are the ids of the
\* terminals sent, newId the nanoid() of the activateTerminalIfNeeded() at its end
CurrentTerminalsMessage(s, ids, newId) ==
  LET restored == [i \in DOMAIN ids |->
                     [id |-> ids[i], elapsed |-> 0, restoredFromRemote |-> TRUE]]
  IN activateTerminal(SetTerminals(s, restored), TRUE, newId).s

\* socket.on(RunnerClientEvent.TerminalClosed, ...)
TerminalClosedMessage(s, terminalId) ==
  LET s1 == IF ClosedTooSoon(s.terminals, terminalId)
            THEN Call(s, "showWarningMessage", "Terminal closed") ELSE s
  IN SetTerminals(s1, Filter(s1.terminals, terminalId))

\* socket.on(RunnerServerEvent.RunnerStatus, ...) of socket k up to its first await
RunnerStatusMessage(s, k, runnerClientStatus, runnerClientOS) ==
  LET s1 == setPartialRunnerStatusData(s,
              [runnerClientStatus |-> runnerClientStatus,
               runnerClientOS |-> runnerClientOS])
  IN IF runnerClientStatus = Online
     THEN Emit(Emit(s1, k, "FetchCurrentTerminals", Undef, 0),
               k, "FetchCurrentPortForwarding", Undef, 0)
     ELSE s1

\* handleAction(RequestData) of the webview
RequestData(s) == postTerminalsToWebview(s)

\* handleAction(TerminalCmd) with `this.socket.emit' in place of `this.socket?.emit'
TerminalCmdUnguarded(s, terminalId) == Emit(s, s.socket, "Cmd", Undef, terminalId)

\* handleAction(TerminalCmd) of the webview
TerminalCmd(s, terminalId) == EmitOnSocket(s, "Cmd", Undef, terminalId)

\* handleAction(TerminalSetDimensions) of the webview
TerminalSetDimensions(s, id) == EmitOnSocket(s, "SetTerminalDimensions", Undef, id)

\* setPortForwarding(port)
setPortForwarding(s) == EmitOnSocket(s, "SetPortForwarding", Undef, 0)

\* deliverPortForwardingData()
deliverPortForwardingData(s) ==
  IF ~(/\ s.statusData.runnerStatus = SessionStarted
       /\ s.statusData.runnerClientStatus = Online)
  THEN Call(s, "onPortForwardingUpdate", Undef)
  ELSE EmitOnSocket(s, "FetchCurrentPortForwarding", Undef, 0)

\* socket.on(RunnerClientEvent.CurrentPortForwarding, ...)
CurrentPortForwardingMessage(s) == Call(s, "onPortForwardingUpdate", Undef)

\* socket.on(RunnerClientEvent.Stdout, ...): postTerminalData
StdoutMessage(s, terminalId) ==
  IF s.panel # "none" THEN Call(s, "postMessage.TerminalStdout", Undef) ELSE s

\* panel.onDidDispose(() => (this._panel = undefined)): the user closed the panel
OnDidDispose(s) == [s EXCEPT !.panel = "none"]

\* terminate() that tears down before it sends TerminateSession
TerminateConfirmedLate(s) ==
  LET s1 == setSessionData(s, s.data.githubRef, NoRecord)
      s2 == disconnectRunner(s1, Undef)
  IN EmitOnSocket(s2, "TerminateSession", Undef, 0)

\* terminate() after its prompt was answered 'OK'
TerminateConfirmed(s) ==
  LET s1 == setSessionData(s, s.data.githubRef, NoRecord)
      s2 == EmitOnSocket(s1, "TerminateSession", Undef, 0)
  IN disconnectRunner(s2, Undef)

\* terminate() from the answer of its prompt on: the object and the value returned
terminate(s, answer) ==
  IF answer = "OK" THEN [s |-> TerminateConfirmed(s), ret |-> TRUE]
  ELSE [s |-> s, ret |-> FALSE]

\* launchRunnerClient after setupRunnerClientRepo returned for the i-th
\* suspended call; ok says whether it returned an owner and a repo.
\* dispatchRunnerClientWorkflow calls the setter it is given with the timeout
\* it arms.
LaunchResumed(s, i, ok) ==
  LET s0 == [s EXCEPT !.launches = RemoveAt(@, i)]
  IN IF ok
     THEN [Call(s0, "dispatchRunnerClientWorkflow", s.launches[i].sessionId)
             EXCEPT !.workflowDispatchTimeout = "armed"]
     ELSE s0

\* ------------------------------------------------------------ actions
\* connectTo(data) when no prompt is shown: runs to the end of the executor
ConnectTo(d) ==
  /\ CanConnect
  /\ ~Conflict(d)
  /\ Commit(Proceed(Cur, d, NextSocket))
  /\ UNCHANGED <<prompts, issued, disposals>>

\* connectTo(data) up to its await of showInformationMessage
ConnectToAsk(d) ==
  /\ Conflict(d)
  /\ Len(prompts) < lim.prompts
  /\ prompts' = Append(prompts, [kind |-> "connectTo", data |-> d])
  /\ UNCHANGED <<data, statusData, terminals, socket, sockets, store, panel,
                 workflowDispatchTimeout, launches, launched, issued, disposals, lim>>

\* the prompt of connectTo answered 'Continue'
ConnectToContinue(i) ==
  /\ prompts[i].kind = "connectTo"
  /\ CanConnect
  /\ Commit(Proceed(Cur, prompts[i].data, NextSocket))
  /\ prompts' = RemoveAt(prompts, i)
  /\ UNCHANGED <<issued, disposals>>

\* the prompt of connectTo dismissed
ConnectToDecline(i) ==
  /\ prompts[i].kind = "connectTo"
  /\ Commit(DeclineConnect(Cur))
  /\ prompts' = RemoveAt(prompts, i)
  /\ UNCHANGED <<issued, disposals>>

\* the connect timer of socket k expires
TimeoutFire(k) ==
  /\ sockets[k].timer = "armed"
  /\ Commit(TimeoutCallback(Cur, k))
  /\ UNCHANGED <<prompts, issued, disposals>>

TransportConnect(k) ==
  /\ sockets[k].state \in {"opening", "down"}
  /\ sockets[k].once < lim.once
  /\ Commit(ConnectEvent(Cur, k))
  /\ UNCHANGED <<prompts, issued, disposals>>

TransportDisconnect(k) ==
  /\ sockets[k].state = "connected"
  /\ Commit(DisconnectEvent(Cur, k))
  /\ UNCHANGED <<prompts, issued, disposals>>

TransportError(k) ==
  /\ sockets[k].state \in {"opening", "connected", "down"}
  /\ Commit(ErrorEvent(Cur, k))
  /\ UNCHANGED <<prompts, issued, disposals>>

\* The server answers an announce without a session id with the id of a session
\* it has just made, which it never sent before; any other announce it may
\* answer with any id.  Without a listener the event runs no code.
CanSessionStart(k, sid) ==
  /\ sockets[k].state = "connected"
  /\ sockets[k].once > 0
  /\ sockets[k].announced = Undef => sid \notin issued

SessionStartedEvent(k, sid) ==
  /\ CanSessionStart(k, sid)
  /\ Commit(SessionStartedMessage(Cur, k, sid))
  /\ issued' = issued \cup {sid}
  /\ UNCHANGED <<prompts, disposals>>

SessionTerminatedEvent(k) ==
  /\ sockets[k].state = "connected"
  /\ Commit(SessionTerminatedMessage(Cur))
  /\ UNCHANGED <<prompts, issued, disposals>>

CurrentTerminalsEvent(k, ids, newId) ==
  /\ sockets[k].state = "connected"
  /\ Commit(CurrentTerminalsMessage(Cur, ids, newId))
  /\ UNCHANGED <<prompts, issued, disposals>>

TerminalClosedEvent(k, terminalId) ==
  /\ sockets[k].state = "connected"
  /\ Commit(TerminalClosedMessage(Cur, terminalId))
  /\ UNCHANGED <<prompts, issued, disposals>>

RunnerStatusEvent(k, runnerClientStatus, runnerClientOS) ==
  /\ sockets[k].state = "connected"
  /\ Commit(RunnerStatusMessage(Cur, k, runnerClientStatus, runnerClientOS))
  /\ UNCHANGED <<prompts, issued, disposals>>

\* activateTerminal(file, ignoreIfExists) called by the extension or the webview
ActivateTerminal(ignoreIfExists, newId) ==
  /\ Commit(activateTerminal(Cur, ignoreIfExists, newId).s)
  /\ UNCHANGED <<prompts, issued, disposals>>

\* disconnectRunner() called by the extension
DisconnectRunner ==
  /\ Commit(disconnectRunner(Cur, Undef))
  /\ UNCHANGED <<prompts, issued, disposals>>

\* terminate() up to its await of showWarningMessage; the prompt names
\* this._data?.githubRef
TerminateAsk ==
  /\ Len(prompts) < lim.prompts
  /\ prompts' = Append(prompts, [kind |-> "terminate",
                                 data |-> MkData(data.githubRef, Undef, Undef, Undef)])
  /\ UNCHANGED <<data, statusData, terminals, socket, sockets, store, panel,
                 workflowDispatchTimeout, launches, launched, issued, disposals, lim>>

TerminateOK(i) ==
  /\ prompts[i].kind = "terminate"
  /\ Commit(terminate(Cur, "OK").s)
  /\ prompts' = RemoveAt(prompts, i)
  /\ UNCHANGED <<issued, disposals>>

\* the prompt of terminate dismissed: return false
TerminateCancel(i) ==
  /\ prompts[i].kind = "terminate"
  /\ Commit(terminate(Cur, Undef).s)
  /\ prompts' = RemoveAt(prompts, i)
  /\ UNCHANGED <<issued, disposals>>

LaunchResume(i, ok) ==
  /\ Commit(LaunchResumed(Cur, i, ok))
  /\ UNCHANGED <<prompts, issued, disposals>>

\* messages of the webview of the panel
HandleRequestData ==
  /\ panel # "none"
  /\ Commit(RequestData(Cur))
  /\ UNCHANGED <<prompts, issued, disposals>>

HandleTerminalCmd(terminalId) ==
  /\ panel # "none"
  /\ Commit(TerminalCmd(Cur, terminalId))
  /\ UNCHANGED <<prompts, issued, disposals>>

HandleTerminalSetDimensions(id) ==
  /\ panel # "none"
  /\ Commit(TerminalSetDimensions(Cur, id))
  /\ UNCHANGED <<prompts, issued, disposals>>

\* setPortForwarding and deliverPortForwardingData called by the extension
SetPortForwarding ==
  /\ Commit(setPortForwarding(Cur))
  /\ UNCHANGED <<prompts, issued, disposals>>

DeliverPortForwardingData ==
  /\ Commit(deliverPortForwardingData(Cur))
  /\ UNCHANGED <<prompts, issued, disposals>>

CurrentPortForwardingEvent(k) ==
  /\ sockets[k].state = "connected"
  /\ Commit(CurrentPortForwardingMessage(Cur))
  /\ UNCHANGED <<prompts, issued, disposals>>

StdoutEvent(k, terminalId) ==
  /\ sockets[k].state = "connected"
  /\ Commit(StdoutMessage(Cur, terminalId))
  /\ UNCHANGED <<prompts, issued, disposals>>

PanelDisposed ==
  /\ panel # "none"
  /\ disposals < lim.disposals
  /\ Commit(OnDidDispose(Cur))
  /\ disposals' = disposals + 1
  /\ UNCHANGED <<prompts, issued>>

\* the user brings another editor in front of the panel: _panel.visible is
\* false from then on; the webview is retained (retainContextWhenHidden)
PanelHidden ==
  /\ panel = "open"
  /\ disposals < lim.disposals
  /\ panel' = "hidden"
  /\ disposals' = disposals + 1
  /\ UNCHANGED <<data, statusData, terminals, socket, sockets, store,
                 workflowDispatchTimeout, launches, launched, prompts, issued, lim>>

\* one tick of time passes
Tick ==
  /\ \E i \in DOMAIN terminals : terminals[i].elapsed < lim.elapsed
  /\ terminals' = [i \in DOMAIN terminals |->
                     [terminals[i] EXCEPT !.elapsed = IF @ < lim.elapsed THEN @ + 1 ELSE @]]
  /\ UNCHANGED <<data, statusData, socket, sockets, store, panel,
                 workflowDispatchTimeout, launches, launched, prompts, issued, disposals, lim>>

\* the snapshots a peer may send: lists of ids, repeats included
Snapshots == {<<>>} \cup {<<i>> : i \in TermIds} \cup {<<i, j>> : i \in TermIds, j \in TermIds}
\* nanoid(): an id that no terminal of the registry has
FreshIds == TermIds \ Ids(terminals)

Next ==
  \/ \E d \in SessionDatas : ConnectTo(d)
  \/ \E d \in SessionDatas : ConnectToAsk(d)
  \/ \E i \in DOMAIN prompts : ConnectToContinue(i)
  \/ \E i \in DOMAIN prompts : ConnectToDecline(i)
  \/ \E k \in Sockets : TimeoutFire(k)
  \/ \E k \in Sockets : TransportConnect(k)
  \/ \E k \in Sockets : TransportDisconnect(k)
  \/ \E k \in Sockets : TransportError(k)
  \/ \E k \in Sockets, sid \in SessionIds : SessionStartedEvent(k, sid)
  \/ \E k \in Sockets : SessionTerminatedEvent(k)
  \/ \E k \in Sockets, ids \in Snapshots, newId \in FreshIds :
       CurrentTerminalsEvent(k, ids, newId)
  \/ \E k \in Sockets, t \in TermIds : TerminalClosedEvent(k, t)
  \/ \E k \in Sockets : RunnerStatusEvent(k, Online, "linux")
  \/ \E k \in Sockets : RunnerStatusEvent(k, Offline, Undef)
  \/ \E ign \in BOOLEAN, newId \in FreshIds : ActivateTerminal(ign, newId)
  \/ DisconnectRunner
  \/ TerminateAsk
  \/ \E i \in DOMAIN prompts : TerminateOK(i)
  \/ \E i \in DOMAIN prompts : TerminateCancel(i)
  \/ \E i \in DOMAIN launches, ok \in BOOLEAN : LaunchResume(i, ok)
  \/ HandleRequestData
  \/ \E t \in TermIds : HandleTerminalCmd(t)
  \/ \E t \in TermIds : HandleTerminalSetDimensions(t)
  \/ SetPortForwarding
  \/ DeliverPortForwardingData
  \/ \E k \in Sockets : CurrentPortForwardingEvent(k)
  \/ \E k \in Sockets, t \in TermIds : StdoutEvent(k, t)
  \/ PanelDisposed
  \/ PanelHidden
  \/ Tick

Spec == Init /\ [][Next]_vars

\* A timer set with setTimeout and not cleared expires: the callback of an armed
\* connect timer runs after its 20 seconds.
TimersExpire == \A k \in 1..MaxConnects : WF_vars(k \in Sockets /\ TimeoutFire(k))
SpecTimers == Spec /\ TimersExpire

\* ------------------------------------------------------------ properties
\* A property of a handler is stated for every reachable state in which the
\* handler can run: the handler is applied to the state, and the object and the
\* effects it leaves are examined.
Emitted(s, ev) == {i \in DOMAIN s.fx : s.fx[i].t = "emit" /\ s.fx[i].ev = ev}
Called(s, name) == {i \in DOMAIN s.fx : s.fx[i].t = "call" /\ s.fx[i].ev = name}
Notified(s, type, message) ==
  {i \in DOMAIN s.fx : /\ s.fx[i].t = "onUpdate" /\ s.fx[i].ev = type
                       /\ s.fx[i].arg = message}
\* a socket that was created and is not disconnected
Live(k) == sockets[k].state \in {"opening", "connected", "down"}

\* C1: at any time at most one socket that was created and has not been
\* disconnected exists, and it is the one the object owns: connectTo creates a
\* socket only after it disconnected the one owned before.
C1_AtMostOneLiveSocket == \A k \in Sockets : Live(k) => k = socket

\* a second connectTo has run: the socket of the first is closed, its own is live
C1_SecondSocketLive ==
  \E j, k \in Sockets : j # k /\ sockets[j].state = "closed" /\ Live(k) /\ socket = k

\* C2: immediately after the handler of a transport 'disconnect' event, the
\* terminal registry is empty and runnerClientStatus is Offline, whatever the
\* registry held before.
C2_DisconnectEmptiesRegistry ==
  \A k \in Sockets :
    sockets[k].state = "connected" =>
      LET s1 == DisconnectEvent(Cur, k)
      IN /\ s1.terminals = <<>>
         /\ s1.statusData.runnerClientStatus = Offline

\* C3: session-started(id) received while a non-empty session id other than id
\* is held never makes id the session id, never makes the status SessionStarted,
\* and ends in the teardown of disconnectRunner with the error
\* SessionIdDoesNotMatch, which is reported as an error.
C3_MismatchNeverAdopts ==
  \A k \in Sockets, sid \in SessionIds :
    (CanSessionStart(k, sid) /\ sessionId(Cur) # Undef /\ sessionId(Cur) # sid) =>
      LET s1 == SessionStartedMessage(Cur, k, sid)
      IN /\ sessionId(s1) # sid
         /\ s1.statusData.sessionId # sid
         /\ s1.statusData.runnerStatus = Initial
         /\ s1.statusData.runnerError = SessionIdDoesNotMatch
         /\ s1.socket = 0 /\ s1.data = NoData /\ s1.terminals = <<>>
         /\ s1.sockets[k].state = "closed"
         /\ Notified(s1, "error", "The registered session ID doesn't match") # {}

\* C4: after connectTo with an empty session id and one transport 'connect',
\* session-started(id) makes the status SessionStarted and id the session id,
\* writes the record of the ref with sessionId = id, calls launchRunnerClient
\* exactly once and asks the runner for no refresh.
C4_NewSessionStarts ==
  \A k \in Sockets, sid \in SessionIds :
    (CanSessionStart(k, sid) /\ sockets[k].once = 1 /\ sockets[k].announced = Undef) =>
      LET s1 == SessionStartedMessage(Cur, k, sid)
      IN /\ s1.statusData.runnerStatus = SessionStarted
         /\ s1.statusData.sessionId = sid
         /\ sessionId(s1) = sid
         /\ data.githubRef = sockets[k].ref
         /\ s1.store[data.githubRef] = sid
         /\ Cardinality(Called(s1, "launchRunnerClient")) = 1
         /\ Emitted(s1, "CheckRunnerStatus") = {}
         /\ Emitted(s1, "FetchCurrentTerminals") = {}

\* a new session has started: the id the server sent is held and recorded, and
\* the launch of the runner client for it is under way or done
C4_NewSessionStarted ==
  \E k \in Sockets :
    /\ sockets[k].state = "connected" /\ socket = k
    /\ sockets[k].once = 0
    /\ statusData.runnerStatus = SessionStarted
    /\ statusData.sessionId \in SessionIds
    /\ sessionId(Cur) = statusData.sessionId
    /\ store[sockets[k].ref] = statusData.sessionId
    /\ launched[statusData.sessionId] = 1

\* C5: session-started(X) received while X is the session id held (after a
\* connectTo that carried X, or after a re-connect of the socket of a started
\* session) emits CheckRunnerStatus to the runner and does not call
\* launchRunnerClient; and in every run the launch of a runner client is begun
\* at most once for a session id.
C5_ResumeRefreshesWithoutLaunch ==
  /\ \A k \in Sockets, sid \in SessionIds :
       (CanSessionStart(k, sid) /\ sessionId(Cur) = sid) =>
         LET s1 == SessionStartedMessage(Cur, k, sid)
         IN /\ \E i \in Emitted(s1, "CheckRunnerStatus") : s1.fx[i].sock = k
            /\ Called(s1, "launchRunnerClient") = {}
            /\ Called(s1, "setupRunnerClientRepo") = {}
            /\ s1.launched = launched
  /\ \A i \in SessionIds : launched[i] <= 1

\* a session was resumed: the id announced is the id started, and no runner
\* client was ever launched for it
C5_SessionResumed ==
  \E k \in Sockets :
    /\ sockets[k].state = "connected" /\ socket = k
    /\ sockets[k].once = 0
    /\ sockets[k].announced \in SessionIds
    /\ statusData.runnerStatus = SessionStarted
    /\ statusData.sessionId = sockets[k].announced
    /\ sessionId(Cur) = sockets[k].announced
    /\ launched[sockets[k].announced] = 0

\* C6: when the connect timer of a connectTo expires and no 'connect' event
\* came for its socket, the socket is disconnected, the status becomes Initial
\* with runnerError Timeout, runnerClientStatus is Offline and the error
\* "Connection timeout" is notified.  (A timer still armed saw no 'connect'.)
C6_TimeoutResets ==
  \A k \in Sockets :
    sockets[k].timer = "armed" =>
      LET s1 == TimeoutCallback(Cur, k)
      IN /\ s1.sockets[k].state = "closed"
         /\ s1.statusData.runnerStatus = Initial
         /\ s1.statusData.runnerError = Timeout
         /\ s1.statusData.runnerClientStatus = Offline
         /\ Notified(s1, "error", "Connection timeout") # {}

\* C7: session-terminated received in status SessionStarted clears the record
\* of the session's ref, empties the registry, clears the session id, closes
\* the socket and leaves status Initial with runnerError SessionTerminated.
C7_TerminatedClearsAll ==
  \A k \in Sockets :
    (sockets[k].state = "connected" /\ statusData.runnerStatus = SessionStarted) =>
      LET s1 == SessionTerminatedMessage(Cur)
      IN /\ s1.store[sockets[k].ref] = NoRecord
         /\ s1.terminals = <<>>
         /\ sessionId(s1) = Undef /\ s1.statusData.sessionId = Undef
         /\ s1.sockets[k].state = "closed" /\ s1.socket = 0
         /\ s1.statusData.runnerStatus = Initial
         /\ s1.statusData.runnerError = SessionTerminated

\* C8: with the runner client Online, activateTerminal(file, true) on a
\* non-empty registry returns true, keeps the registry and emits no
\* ActivateTerminal; otherwise it returns true, appends exactly one instance
\* with an id the registry did not have, keeps the others in place, and emits
\* exactly one ActivateTerminal, which carries that instance.
C8_ActivateOnline ==
  statusData.runnerClientStatus = Online =>
    \A ignoreIfExists \in BOOLEAN, newId \in FreshIds :
      LET r == activateTerminal(Cur, ignoreIfExists, newId)
          n == Len(terminals)
      IN IF ignoreIfExists /\ n # 0
         THEN /\ r.ret = TRUE
              /\ r.s.terminals = terminals
              /\ Emitted(r.s, "ActivateTerminal") = {}
         ELSE /\ r.ret = TRUE
              /\ Len(r.s.terminals) = n + 1
              /\ SubSeq(r.s.terminals, 1, n) = terminals
              /\ r.s.terminals[n + 1].id \notin Ids(terminals)
              /\ Cardinality(Emitted(r.s, "ActivateTerminal")) = 1
              /\ \A i \in Emitted(r.s, "ActivateTerminal") :
                   /\ r.s.fx[i].id = r.s.terminals[n + 1].id
                   /\ r.s.fx[i].sock = socket /\ socket # 0

\* activateTerminal has added an instance to a registry that held one
C8_SecondTerminalActivated ==
  /\ statusData.runnerClientStatus = Online
  /\ Len(terminals) = 2
  /\ terminals[2].restoredFromRemote = FALSE
  /\ terminals[2].id # terminals[1].id

\* C9: whenever runnerClientStatus is Offline, activateTerminal returns false
\* and does nothing: the registry, the persisted records and every other field
\* are as before, and nothing is emitted, also for ignoreIfExists = true on a
\* non-empty registry.
C9_ActivateOfflineRefused ==
  statusData.runnerClientStatus = Offline =>
    \A ignoreIfExists \in BOOLEAN, newId \in TermIds :
      LET r == activateTerminal(Cur, ignoreIfExists, newId)
      IN /\ r.ret = FALSE
         /\ r.s.terminals = terminals
         /\ r.s.store = store
         /\ r.s.fx = <<>>
         /\ r.s = Cur

\* the runner client is Offline while the registry holds a terminal, and
\* activateTerminalIfNeeded() is refused
C9_OfflineWithTerminals ==
  /\ statusData.runnerClientStatus = Offline
  /\ terminals # <<>>
  /\ activateTerminal(Cur, TRUE, 1).ret = FALSE

\* C10: terminal-closed(T) for a terminal T of the registry removes T, and
\* the warning is shown exactly when the time since T was activated is at most
\* terminalLiveThreshold seconds: never when it is more, however little more.
C10_WarningWithinThreshold ==
  \A k \in Sockets, i \in DOMAIN terminals :
    sockets[k].state = "connected" =>
      LET s1 == TerminalClosedMessage(Cur, terminals[i].id)
          hits == {j \in DOMAIN terminals : terminals[j].id = terminals[i].id}
      IN /\ terminals[i].id \notin Ids(s1.terminals)
         /\ hits = {i} =>
              (Called(s1, "showWarningMessage") # {}
                 <=> terminals[i].elapsed <= terminalLiveThreshold * TicksPerSecond)

\* C11: at most one connect timer and at most one dispatch timer is armed at
\* any time: a connectTo that arms its timer while the timer of an earlier
\* connectTo is still armed has cancelled the earlier one first.
C11_OneTimerArmed ==
  /\ Cardinality({k \in Sockets : sockets[k].timer = "armed"}) <= 1
  /\ \A d \in SessionDatas :
       CanConnect =>
         LET s1 == Proceed(Cur, d, NextSocket)
         IN \A k \in Sockets : s1.sockets[k].timer = "armed" => k = NextSocket

\* C12: after disconnectRunner has run, no timer is armed: neither the connect
\* timer of any connectTo nor the dispatch timer can fire afterwards.
C12_DisconnectRunnerLeavesNoTimer ==
  \A error \in {Undef, SessionIdDoesNotMatch, SessionTerminated} :
    LET s1 == disconnectRunner(Cur, error)
    IN /\ \A k \in Sockets : s1.sockets[k].timer # "armed"
       /\ s1.workflowDispatchTimeout # "armed"

\* C13: in every reachable state runnerClientStatus = Online implies
\* runnerStatus = SessionStarted.
C13_OnlineOnlyInSessionStarted ==
  statusData.runnerClientStatus = Online => statusData.runnerStatus = SessionStarted

\* C14: terminate() whose prompt is answered 'OK' clears the persisted record
\* of the session's ref, emits TerminateSession on the owned socket before the
\* socket is disconnected, runs the teardown of disconnectRunner and returns
\* true; terminate() whose prompt is dismissed returns false, emits nothing and
\* leaves every field as it was.
C14_TerminateAnswered ==
  \A i \in DOMAIN prompts :
    prompts[i].kind = "terminate" =>
      LET ok == terminate(Cur, "OK")
          no == terminate(Cur, Undef)
          sent == Emitted(ok.s, "TerminateSession")
          closed == {j \in DOMAIN ok.s.fx : ok.s.fx[j].t = "disconnect"}
      IN /\ ok.ret = TRUE
         /\ ok.s.store[data.githubRef] = NoRecord
         /\ socket # 0 =>
              /\ Cardinality(sent) = 1
              /\ \A j \in sent : ok.s.fx[j].sock = socket
              /\ closed # {}
              /\ \A j \in sent, c \in closed : j < c
              /\ ok.s.sockets[socket].state = "closed"
         /\ socket = 0 => sent = {}
         /\ ok.s.socket = 0 /\ ok.s.data = NoData /\ ok.s.terminals = <<>>
         /\ ok.s.statusData.runnerStatus = Initial
         /\ ok.s.statusData.runnerClientStatus = Offline
         /\ Cardinality(Called(ok.s, "onDisconnected")) = 1
         /\ no.ret = FALSE
         /\ no.s = Cur

\* terminate() was confirmed for a started session: a new session was started
\* and recorded, and now no record is left and the object is torn down
C14_TerminatedByUser ==
  /\ \E sid \in SessionIds : launched[sid] > 0
  /\ \A r \in Refs : store[r] = NoRecord
  /\ socket = 0 /\ data = NoData
  /\ statusData.runnerStatus = Initial
  /\ \E k \in Sockets : sockets[k].state = "closed"

\* C15: terminal input, terminal resize and setPortForwarding emit nothing
\* when no socket is owned, and exactly one message of their kind on the owned
\* socket when one is; in both cases no field of the object changes.
C15_RequestsOnlyEmit ==
  \A t \in TermIds :
    LET OneEmit(x, ev, id) ==
          /\ [x EXCEPT !.fx = <<>>] = Cur
          /\ IF socket = 0 THEN x.fx = <<>>
             ELSE /\ Len(x.fx) = 1
                  /\ x.fx[1].t = "emit" /\ x.fx[1].ev = ev
                  /\ x.fx[1].sock = socket /\ x.fx[1].id = id
    IN /\ OneEmit(TerminalCmd(Cur, t), "Cmd", t)
       /\ OneEmit(TerminalSetDimensions(Cur, t), "SetTerminalDimensions", t)
       /\ OneEmit(setPortForwarding(Cur), "SetPortForwarding", 0)

\* the panel is open on a terminal of a connected session, and its input is sent
C15_InputForwarded ==
  /\ panel # "none" /\ terminals # <<>>
  /\ socket # 0 /\ sockets[socket].state = "connected"
  /\ Emitted(TerminalCmd(Cur, terminals[1].id), "Cmd") # {}

\* C16: connectTo returns false when its connect timer fires before a
\* 'connect' event confirmed the connection, returns true only when the
\* connection was confirmed before the timer fired, and never returns true for
\* an attempt whose timer has fired.  (A timer still armed saw no 'connect', and
\* the promise of its connectTo is still pending.)
C16_ConnectToReturns ==
  /\ \A k \in Sockets :
       sockets[k].timer = "armed" =>
         /\ sockets[k].promise = "pending"
         /\ TimeoutCallback(Cur, k).sockets[k].promise = "false"
  /\ \A k \in Sockets : sockets[k].timer = "fired" => sockets[k].promise # "true"
  /\ \A k \in Sockets : sockets[k].promise = "true" => sockets[k].timer = "cleared"

\* C17: connectTo asks for confirmation exactly when the persisted record of
\* the requested ref has a non-empty session id other than the requested one;
\* when the prompt is dismissed no socket is disconnected or created and no
\* timer is armed; and connectTo never emits TerminateSession.
C17_ConflictPrompt ==
  \A d \in SessionDatas :
    /\ Conflict(d) <=> (store[d.githubRef] \in SessionIds /\ store[d.githubRef] # d.sessionId)
    /\ LET s1 == DeclineConnect(Cur)
       IN /\ s1.sockets = sockets /\ s1.socket = socket
          /\ \A j \in DOMAIN s1.fx : s1.fx[j].t \notin {"disconnect", "emit"}
    /\ CanConnect => Emitted(Proceed(Cur, d, NextSocket), "TerminateSession") = {}

\* a conflict prompt was dismissed while a socket was connected: the status is
\* Initial without an error, and the socket is still owned and connected
C17_PromptDismissed ==
  /\ socket # 0 /\ sockets[socket].state = "connected"
  /\ statusData.runnerStatus = Initial /\ statusData.runnerError = Undef
  /\ prompts = <<>>

\* C18: when connectTo proceeds, at the end of its synchronous part the socket
\* owned before is disconnected, the registry is empty, runnerClientStatus is
\* Offline, the previous error is cleared, the connect timer of the new socket
\* is armed, the session data is the requested one and runnerStatus is
\* Connecting.
C18_ProceedResets ==
  \A d \in SessionDatas :
    CanConnect =>
      LET k == NextSocket
          s1 == Proceed(Cur, d, k)
      IN /\ socket # 0 => s1.sockets[socket].state = "closed"
         /\ s1.terminals = <<>>
         /\ s1.statusData.runnerClientStatus = Offline
         /\ s1.statusData.runnerError = Undef
         /\ s1.sockets[k].timer = "armed" /\ s1.sockets[k].state = "opening"
         /\ s1.socket = k
         /\ s1.data = d
         /\ s1.statusData.sessionId = d.sessionId
         /\ s1.statusData.runnerStatus = Connecting

\* a connectTo has proceeded over an earlier one: the earlier socket is closed,
\* the new one is opening with its timer armed, and the status is Connecting
C18_Reconnecting ==
  \E j, k \in Sockets :
    /\ j # k /\ sockets[j].state = "closed"
    /\ socket = k /\ sockets[k].state = "opening" /\ sockets[k].timer = "armed"
    /\ statusData.runnerStatus = Connecting
    /\ statusData.runnerClientStatus = Offline
    /\ terminals = <<>> /\ data \in SessionDatas

\* C19: disconnectRunner(reason), from any state, ends with no socket owned
\* (the one owned before is disconnected), the session data and session id
\* cleared, the registry empty, runnerClientStatus Offline and runnerStatus
\* Initial with runnerError = reason; an error for reason is notified when a
\* reason is given; and onDisconnected is called exactly once, last, after
\* the status was reset.
C19_DisconnectRunnerResets ==
  \A error \in {Undef, SessionIdDoesNotMatch, SessionTerminated} :
    LET s1 == disconnectRunner(Cur, error)
        n == Len(s1.fx)
    IN /\ s1.socket = 0
       /\ socket # 0 => s1.sockets[socket].state = "closed"
       /\ s1.data = NoData /\ sessionId(s1) = Undef
       /\ s1.statusData.sessionId = Undef
       /\ s1.terminals = <<>>
       /\ s1.statusData.runnerClientStatus = Offline
       /\ s1.statusData.runnerStatus = Initial
       /\ s1.statusData.runnerError = error
       /\ error # Undef =>
            \E i \in Notified(s1, "error", "runnerErrorMesage." \o error) :
              /\ s1.fx[i].st.runnerStatus = Initial
              /\ s1.fx[i].st.runnerError = error
       /\ Called(s1, "onDisconnected") = {n}
       /\ \E i \in 1..(n - 1) : s1.fx[i].t = "onUpdate" /\ s1.fx[i].st = s1.statusData

\* disconnectRunner(SessionTerminated) has run on a session
C19_TornDownWithReason ==
  /\ socket = 0 /\ data = NoData /\ terminals = <<>>
  /\ statusData.runnerStatus = Initial
  /\ statusData.runnerError = SessionTerminated
  /\ statusData.runnerClientStatus = Offline
  /\ \E k \in Sockets : sockets[k].state = "closed" /\ sockets[k].promise = "true"

\* C20: a transport 'error' event on a socket changes nothing: status data,
\* session data, terminal registry, owned socket, every socket's timer and the
\* workflow dispatch timeout are as before and nothing is notified or emitted;
\* the 'disconnect' event of a connected socket is what sets runnerStatus to
\* Disconnected.
C20_ErrorChangesNothing ==
  \A k \in Sockets :
    /\ Live(k) =>
         LET s1 == ErrorEvent(Cur, k)
         IN /\ s1.statusData = statusData
            /\ s1.data = data
            /\ s1.terminals = terminals
            /\ s1.socket = socket
            /\ s1.sockets = sockets
            /\ s1.workflowDispatchTimeout = workflowDispatchTimeout
            /\ s1.store = store /\ s1.panel = panel
            /\ s1.fx = <<>>
    /\ sockets[k].state = "connected" =>
         LET s2 == DisconnectEvent(Cur, k)
         IN /\ s2.statusData.runnerStatus = Disconnected
            /\ Notified(s2, "error", "Runner server disconnected") # {}

\* an 'error' event can arrive in a started session with a terminal open, and
\* leaves it so
C20_ErrorInSession ==
  \E k \in Sockets :
    /\ sockets[k].state = "connected" /\ socket = k
    /\ statusData.runnerStatus = SessionStarted
    /\ statusData.runnerClientStatus = Online
    /\ terminals # <<>>
    /\ ErrorEvent(Cur, k).statusData = statusData
    /\ ErrorEvent(Cur, k).terminals = terminals

\* the notifications in a list of effects: severity and message of each
RECURSIVE Notifications(_)
Notifications(fx) ==
  IF fx = <<>> THEN <<>>
  ELSE (IF Head(fx).t = "onUpdate" THEN <<<<Head(fx).ev, Head(fx).arg>>>> ELSE <<>>)
         \o Notifications(Tail(fx))

\* the object after connectTo(data without a session id) on a new object and
\* the 'connect' event of its socket
C21_NewSessionConnected ==
  LET new == [Cur EXCEPT !.data = NoData,
                         !.statusData = [sessionId |-> Undef, runnerStatus |-> Initial,
                                         runnerError |-> Undef,
                                         runnerClientStatus |-> Offline,
                                         runnerClientOS |-> Undef],
                         !.terminals = <<>>, !.socket = 0,
                         !.sockets = [k \in Sockets |-> UnusedSocket],
                         !.panel = "none", !.workflowDispatchTimeout = "unset",
                         !.launches = <<>>]
  IN ConnectEvent(Proceed(new, MkData("r1", Undef, "linux", "gha"), 1), 1)

\* C21: the notifications of deliverStatusData are determined by the status
\* data alone.  Stated against one state every run can reach: an object whose
\* status data equals the status data of a newly connected new session delivers
\* the notifications that one delivers, whatever session data it holds.
C21_NotificationsFromStatusAlone ==
  statusData = C21_NewSessionConnected.statusData =>
    Notifications(deliverStatusData(Cur).fx)
      = Notifications(deliverStatusData([C21_NewSessionConnected EXCEPT !.fx = <<>>]).fx)

\* C22: when the session a suspended launchRunnerClient was started for has
\* been torn down (the status is no longer SessionStarted, or the object holds
\* no session data or the data of another session), the return of
\* setupRunnerClientRepo dispatches no workflow and arms no timeout.
C22_LateLaunchIgnored ==
  \A i \in DOMAIN launches :
    (\/ statusData.runnerStatus # SessionStarted
     \/ sessionId(Cur) # launches[i].sessionId) =>
      LET s1 == LaunchResumed(Cur, i, TRUE)
      IN /\ Called(s1, "dispatchRunnerClientWorkflow") = {}
         /\ s1.workflowDispatchTimeout # "armed"

\* C23: under SpecTimers, where every armed connect timer expires, the object
\* never stays in Connected forever: from Connected the status eventually
\* changes, to Initial with runnerError Timeout if no session-started,
\* disconnect or teardown moves it before.
C23_ConnectedEnds ==
  (statusData.runnerStatus = Connected) ~> (statusData.runnerStatus # Connected)

\* C24: a launchRunnerClient that finds insufficient session data notifies one
\* error.  launchRunnerClient is called by the session-started listener only;
\* whenever a call of it in the handling of a session-started message finds no
\* session id (no session data), its next effect is the error notification
\* "No sufficient data to launch runner client".
C24_InsufficientDataNotified ==
  \A k \in Sockets, sid \in SessionIds :
    CanSessionStart(k, sid) =>
      LET s1 == SessionStartedMessage(Cur, k, sid)
      IN \A i \in Called(s1, "launchRunnerClient") :
           s1.fx[i].arg = Undef =>
             /\ i < Len(s1.fx)
             /\ s1.fx[i + 1].t = "onUpdate" /\ s1.fx[i + 1].ev = "error"
             /\ s1.fx[i + 1].arg = "No sufficient data to launch runner client"

\* C25: a transport 'connect' event acts only in runnerStatus Connecting: there
\* it leaves the connect timer of its socket not armed, emits SetType once with
\* the session id held and sets runnerStatus Connected; in any other status it
\* changes neither the status data nor the timer and emits nothing.
C25_ConnectOnlyWhenConnecting ==
  \A k \in Sockets :
    sockets[k].state \in {"opening", "down"} =>
      LET s1 == ConnectEvent(Cur, k)
      IN IF statusData.runnerStatus = Connecting
         THEN /\ s1.sockets[k].timer # "armed"
              /\ Cardinality(Emitted(s1, "SetType")) = 1
              /\ \A i \in Emitted(s1, "SetType") :
                   s1.fx[i].arg = sessionId(Cur) /\ s1.fx[i].sock = k
              /\ s1.statusData.runnerStatus = Connected
         ELSE /\ s1.statusData = statusData
              /\ s1.sockets[k].timer = sockets[k].timer
              /\ s1.fx = <<>>

\* C26: a session-started message changes runnerStatus to SessionStarted only
\* in runnerStatus Connected; in any other status it changes neither the
\* status, nor the session id held, nor the persisted records; and a message is
\* handled at most once (a handling either writes the record of the session or
\* ends in disconnectRunner).
C26_SessionStartedOnlyWhenConnected ==
  \A k \in Sockets, sid \in SessionIds :
    CanSessionStart(k, sid) =>
      LET s1 == SessionStartedMessage(Cur, k, sid)
      IN /\ statusData.runnerStatus # Connected =>
              /\ s1.statusData.runnerStatus = statusData.runnerStatus
              /\ sessionId(s1) = sessionId(Cur)
              /\ s1.store = store
         /\ Cardinality({i \in DOMAIN s1.fx : s1.fx[i].t = "store"})
              + Cardinality(Called(s1, "onDisconnected")) <= 1

\* C27: terminal-closed(id) for an id that no instance of the registry has
\* leaves the registry as it was and shows no warning.
C27_UnknownIdIsNoOp ==
  \A k \in Sockets, terminalId \in TermIds :
    (sockets[k].state = "connected" /\ terminalId \notin Ids(terminals)) =>
      LET s1 == TerminalClosedMessage(Cur, terminalId)
      IN /\ s1.terminals = terminals
         /\ Called(s1, "showWarningMessage") = {}

\* the instances the CurrentTerminals listener makes of a snapshot
Restored(ids) ==
  [i \in DOMAIN ids |-> [id |-> ids[i], elapsed |-> 0, restoredFromRemote |-> TRUE]]

\* C28 as claimed: after current-terminals(S) the registry is exactly the
\* instances of S, the terminals are posted to the webview exactly once, and
\* for a non-empty S no ActivateTerminal is emitted.
C28_SnapshotReplacesRegistry ==
  \A k \in Sockets, ids \in Snapshots, newId \in TermIds :
    sockets[k].state = "connected" =>
      LET s1 == CurrentTerminalsMessage(Cur, ids, newId)
      IN /\ s1.terminals = Restored(ids)
         /\ Cardinality(Called(s1, "postMessage.SetTerminals")) = 1
         /\ ids # <<>> => Emitted(s1, "ActivateTerminal") = {}

\* C28 amended: for a non-empty S the registry becomes exactly the instances
\* of S, each restoredFromRemote, the terminals are posted to the webview
\* exactly once and no ActivateTerminal is emitted.  For an empty S no
\* instance of the registry is kept either: with the runner client Offline the
\* registry is empty and nothing is posted; with it Online the registry holds
\* exactly one new instance, not restored, ActivateTerminal is emitted for it
\* once, and the terminals are posted once.
C28_SnapshotReplacesOrActivates ==
  \A k \in Sockets, ids \in Snapshots, newId \in TermIds :
    sockets[k].state = "connected" =>
      LET s1 == CurrentTerminalsMessage(Cur, ids, newId)
          posts == Cardinality(Called(s1, "postMessage.SetTerminals"))
      IN /\ ids # <<>> =>
              /\ s1.terminals = Restored(ids)
              /\ posts = 1
              /\ Emitted(s1, "ActivateTerminal") = {}
         /\ (ids = <<>> /\ statusData.runnerClientStatus = Offline) =>
              /\ s1.terminals = <<>>
              /\ posts = 0
              /\ Emitted(s1, "ActivateTerminal") = {}
         /\ (ids = <<>> /\ statusData.runnerClientStatus = Online) =>
              /\ s1.terminals =
                   <<[id |-> newId, elapsed |-> 0, restoredFromRemote |-> FALSE]>>
              /\ posts = 1
              /\ Cardinality(Emitted(s1, "ActivateTerminal")) = 1
              /\ \A i \in Emitted(s1, "ActivateTerminal") :
                   s1.fx[i].id = newId /\ s1.fx[i].sock = socket

\* a snapshot of two terminals has replaced the registry
C28_SnapshotAdopted ==
  /\ Len(terminals) = 2
  /\ \A i \in DOMAIN terminals : terminals[i].restoredFromRemote
  /\ panel # "none"

\* C29: no two instances of the registry have the same id, and an id removed
\* from the registry does not come back.  The second part is stated over two
\* handlers in a row: whatever a terminal-closed message or a snapshot removes
\* from the registry of a reachable state is in the registry after no
\* following snapshot and no following activation (nanoid() never returns an id
\* it returned before).
C29_IdsUniqueNeverReused ==
  /\ \A i, j \in DOMAIN terminals : terminals[i].id = terminals[j].id => i = j
  /\ \A k \in Sockets :
       sockets[k].state = "connected" =>
         \A first \in {TerminalClosedMessage(Cur, t) : t \in TermIds}
                        \cup {CurrentTerminalsMessage(Cur, ids, n) :
                                ids \in Snapshots, n \in FreshIds} :
           LET removed == Ids(terminals) \ Ids(first.terminals)
               fresh == TermIds \ (Ids(terminals) \cup Ids(first.terminals))
           IN /\ \A ids \in Snapshots, n \in fresh :
                   removed \cap Ids(CurrentTerminalsMessage(first, ids, n).terminals) = {}
              /\ \A ign \in BOOLEAN, n \in fresh :
                   removed \cap Ids(activateTerminal(first, ign, n).s.terminals) = {}

\* the values the handlers assign to the registry of the current state
Assignable ==
  {<<>>}
    \cup {Append(terminals, [id |-> n, elapsed |-> 0, restoredFromRemote |-> FALSE]) :
            n \in FreshIds}
    \cup {Filter(terminals, t) : t \in TermIds}
    \cup {Restored(ids) : ids \in Snapshots}

\* C30: an assignment to the registry that keeps the number of terminals zero,
\* or keeps it nonzero, does nothing to the panel: no panel is created,
\* revealed or disposed, and _panel is as before.
C30_PanelOnlyOnEdges ==
  \A ts \in Assignable :
    ((terminals = <<>>) <=> (ts = <<>>)) =>
      LET s1 == SetTerminals(Cur, ts)
      IN /\ Called(s1, "createWebviewPanel") = {}
         /\ Called(s1, "panel.reveal") = {}
         /\ Called(s1, "panel.dispose") = {}
         /\ s1.panel = panel

\* C31: the answer 'OK' to a terminate prompt acts only on the session the
\* prompt was shown for.  When the prompt named the ref of a session and the
\* object by now holds a session of another ref, 'OK' clears no persisted record
\* of a ref, sends no TerminateSession and leaves the socket and the session
\* data held as they are.
C31_TerminateOnlyItsSession ==
  \A i \in DOMAIN prompts :
    (/\ prompts[i].kind = "terminate"
     /\ prompts[i].data.githubRef # Undef
     /\ prompts[i].data.githubRef # data.githubRef
     /\ data # NoData) =>
      LET s1 == terminate(Cur, "OK").s
      IN /\ \A r \in Refs : s1.store[r] = store[r]
         /\ Emitted(s1, "TerminateSession") = {}
         /\ s1.socket = socket
         /\ s1.data = data

\* the status and the error of the object s1 are those of the current state
SameStatusAndError(s1) ==
  /\ s1.statusData.runnerStatus = statusData.runnerStatus
  /\ s1.statusData.runnerError = statusData.runnerError

\* C32: in the state a peer's session-terminated leaves (runnerStatus Initial
\* with runnerError SessionTerminated), no expiry of a connect timer, no
\* transport event and no peer event changes runnerStatus or runnerError.
C32_TerminatedIsStable ==
  (statusData.runnerStatus = Initial /\ statusData.runnerError = SessionTerminated) =>
    \A k \in Sockets :
      /\ sockets[k].timer = "armed" => SameStatusAndError(TimeoutCallback(Cur, k))
      /\ sockets[k].state \in {"opening", "down"} => SameStatusAndError(ConnectEvent(Cur, k))
      /\ Live(k) => SameStatusAndError(ErrorEvent(Cur, k))
      /\ sockets[k].state = "connected" =>
           /\ SameStatusAndError(DisconnectEvent(Cur, k))
           /\ SameStatusAndError(SessionTerminatedMessage(Cur))
           /\ \A sid \in SessionIds :
                CanSessionStart(k, sid) =>
                  SameStatusAndError(SessionStartedMessage(Cur, k, sid))
           /\ \A t \in TermIds : SameStatusAndError(TerminalClosedMessage(Cur, t))
           /\ \A ids \in Snapshots, n \in FreshIds :
                SameStatusAndError(CurrentTerminalsMessage(Cur, ids, n))
           /\ SameStatusAndError(RunnerStatusMessage(Cur, k, Online, "linux"))
           /\ SameStatusAndError(RunnerStatusMessage(Cur, k, Offline, Undef))

\* C33: the session id held survives a transport blip.  From every state with
\* a started session X on the connected socket owned, a transport
\* 'disconnect' followed by a 'connect' of that socket emits one SetType
\* carrying X, and a session-started(X) after it leaves runnerStatus
\* SessionStarted with the id X in the status data and in the session data.
C33_SessionIdSurvivesBlip ==
  \A k \in Sockets :
    (/\ sockets[k].state = "connected" /\ socket = k
     /\ statusData.runnerStatus = SessionStarted
     /\ statusData.sessionId # Undef) =>
      LET X == statusData.sessionId
          s1 == DisconnectEvent(Cur, k)
          s2 == ConnectEvent(s1, k)
          s3 == SessionStartedMessage(s2, k, X)
      IN /\ s1.statusData.runnerStatus = Disconnected
         /\ Cardinality(Emitted(s2, "SetType")) = 1
         /\ \A i \in Emitted(s2, "SetType") : s2.fx[i].arg = X /\ s2.fx[i].sock = k
         /\ s2.statusData.runnerStatus = Connected
         /\ s3.statusData.runnerStatus = SessionStarted
         /\ s3.statusData.sessionId = X
         /\ sessionId(s3) = X
         /\ s3.socket = k /\ s3.sockets[k].state = "connected"

\* a session started as new on the only socket was resumed by that socket
\* after a blip: its last announce carried the id
C33_ResumedAfterBlip ==
  /\ Cardinality(Sockets) = 1
  /\ \E k \in Sockets, X \in SessionIds :
       /\ sockets[k].state = "connected" /\ socket = k
       /\ sockets[k].announced = X
       /\ launched[X] = 1
       /\ statusData.runnerStatus = SessionStarted
       /\ statusData.sessionId = X
       /\ sessionId(Cur) = X

\* C34: under SpecTimers, where armed connect timers expire, the promise of
\* every connectTo call that reached its executor is eventually resolved,
\* unless a prompt is left waiting for its answer: prompts are answered, so a
\* behaviour the claim speaks of has, after every moment at which the promise
\* is pending, a moment at which it is resolved or a prompt is still open.
C34_ConnectToEventuallyReturns ==
  \A k \in 1..MaxConnects :
    (k \in Sockets /\ sockets[k].promise = "pending")
      ~> ((k \in Sockets /\ sockets[k].promise # "pending") \/ prompts # <<>>)
====
